---- MODULE Spec2Model ----
(***************************************************************************)
(* MySQLTargetManager.Acquire / Release (plugin mysqltargetmanager) run    *)
(* against a target.Locker, after ValidateAcquireParameters has checked    *)
(* the request.  One Acquire call is three steps, cut at the               *)
(* calls into the locker: Start (catalog load, filter, shuffle, pre-flight *)
(* count), TryLock (the locker call, FilterTargets, the quorum check) and  *)
(* Unlock (the unwind).  The locker and target.FilterTargets live outside  *)
(* the plugin and are modelled from their contract.                        *)
(***************************************************************************)
EXTENDS Integers, Sequences, FiniteSets, TLC

\* ------------------------------------------------------------------ bounds
NumJobs == 2
MaxRows == 2
MaxDevices == 2

Jobs == 1..NumJobs

\* ------------------------------------------------------- texts used as input
\* A host name is a sequence of characters (strings.Split / strings.HasPrefix
\* work on the characters).
NoText == << >>
Web1 == <<"w", "e", "b", "1", ".", "x">>
Db1 == <<"d", "b", "1">>
PfxWeb == <<"w", "e", "b">>
PfxWe == <<"w", "e">>
PfxUpper == <<"W", "e", "b">>
PfxInner == <<"e", "b">>
PfxPadded == <<" ", "w", "e", "b", " ">>
PfxBlank == <<" ", " ">>

\* A nil net.IP (a byte slice of length 0).
Nil == << >>
\* An identifier that names no row of any catalog.
Ghost == "ghost"

\* net.ParseIP: the 16-byte form of the address the text denotes, or nil.
ParseIP(s) ==
  CASE s = "1.2.3.4" -> <<0, 0, 0, 0, 0, 0, 0, 0, 0, 0, 255, 255, 1, 2, 3, 4>>
    [] s = "2001:db8::1" -> <<32, 1, 13, 184, 0, 0, 0, 0, 0, 0, 0, 0, 0, 0, 0, 1>>
    [] OTHER -> Nil

\* net.IP.To4: the 4-byte form of an IPv4 (or IPv4-mapped) address, else nil.
To4(ip) ==
  IF ip = Nil THEN Nil
  ELSE IF Len(ip) = 4 THEN ip
  ELSE IF /\ Len(ip) = 16
          /\ \A i \in 1..10 : ip[i] = 0
          /\ ip[11] = 255
          /\ ip[12] = 255
       THEN SubSeq(ip, 13, 16)
  ELSE Nil

\* net.IP.To16: the 16-byte form of any address of length 4 or 16, else nil.
To16(ip) ==
  IF ip = Nil THEN Nil
  ELSE IF Len(ip) = 4
       THEN <<0, 0, 0, 0, 0, 0, 0, 0, 0, 0, 255, 255>> \o ip
  ELSE IF Len(ip) = 16 THEN ip
  ELSE Nil

\* strings.Split(s, ".")[0]
RECURSIVE FirstComponent(_)
FirstComponent(s) ==
  IF s = << >> \/ Head(s) = "." THEN << >>
  ELSE <<Head(s)>> \o FirstComponent(Tail(s))

\* A match of p anywhere in s.
HasPrefix_Contains(s, p) ==
  \E k \in 0..(Len(s) - Len(p)) : SubSeq(s, k + 1, k + Len(p)) = p

\* strings.HasPrefix(s, p)
HasPrefix(s, p) == Len(s) >= Len(p) /\ SubSeq(s, 1, Len(p)) = p

\* ------------------------------------------------------------ the DB table
\* One row of table targetmanager (type mysqltable without the numeric key).
Row(h, f, v4, v6) == [hostid |-> h, FQDN |-> f, IPv4 |-> v4, IPv6 |-> v6]

Rows ==
  { Row("T1", Web1, "1.2.3.4", ""),
    Row("T2", Db1, "", "2001:db8::1"),
    Row("T3", NoText, "", ""),
    Row("", NoText, "", ""),
    Row("", Web1, "", ""),
    Row("T4", NoText, "999.999.999.999", ""),
    Row("T5", NoText, "", "1.2.3.4") }

Catalogs == UNION { [1..n -> Rows] : n \in 0..MaxRows }

\* ---------------------------------------------------------- the parameters
\* The HostPrefixes of the requests, as they arrive for validation.
PrefixLists ==
  { << >>, <<PfxWeb>>, <<PfxWeb, PfxWe>>, <<PfxUpper, PfxInner>>, <<PfxPadded>>,
    <<PfxWeb, PfxBlank>> }

\* type AcquireParameters

AcquireParameters ==
  [ MinNumberDevices : 0..MaxDevices,
    MaxNumberDevices : 0..MaxDevices,
    HostPrefixes : PrefixLists,
    Shuffle : BOOLEAN ]

\* strings.TrimSpace
RECURSIVE TrimLeft(_)
TrimLeft(s) == IF s # << >> /\ Head(s) = " " THEN TrimLeft(Tail(s)) ELSE s

RECURSIVE TrimRight(_)
TrimRight(s) ==
  IF s # << >> /\ s[Len(s)] = " " THEN TrimRight(SubSeq(s, 1, Len(s) - 1)) ELSE s

TrimSpace(s) == TrimRight(TrimLeft(s))

ErrJSON == <<"json: cannot unmarshal">>
ErrEmptyPrefix == <<"host prefix cannot be empty string if specified">>

\* Validation that also refuses a minimum above the maximum.
ValidateAcquireParameters_MinAboveMaxRefused(okJSON, raw) ==
  IF ~okJSON THEN [ap |-> raw, err |-> ErrJSON]
  ELSE IF \E i \in 1..Len(raw.HostPrefixes) : TrimSpace(raw.HostPrefixes[i]) = << >>
    THEN [ap |-> raw, err |-> ErrEmptyPrefix]
  ELSE IF raw.MinNumberDevices > raw.MaxNumberDevices
    THEN [ap |-> raw, err |-> <<"min above max">>]
  ELSE [ ap |-> [raw EXCEPT !.HostPrefixes =
                   [i \in 1..Len(raw.HostPrefixes) |-> TrimSpace(raw.HostPrefixes[i])]],
         err |-> << >> ]

\* ValidateAcquireParameters(params): okJSON tells whether params unmarshal,
\* raw is what they unmarshal to; the result is the parameters with every
\* prefix trimmed, or an error.
ValidateAcquireParameters(okJSON, raw) ==
  IF ~okJSON THEN [ap |-> raw, err |-> ErrJSON]
  ELSE IF \E i \in 1..Len(raw.HostPrefixes) : TrimSpace(raw.HostPrefixes[i]) = << >>
    THEN [ap |-> raw, err |-> ErrEmptyPrefix]
  ELSE [ ap |-> [raw EXCEPT !.HostPrefixes =
                   [i \in 1..Len(raw.HostPrefixes) |-> TrimSpace(raw.HostPrefixes[i])]],
         err |-> << >> ]

\* ------------------------------------------------------------- catalog load
\* One pass of the loop body of Acquire over a scanned row: the row is
\* skipped, aborts the load, or yields a target and the number of times the
\* target is appended to hosts.
Target(row, n) ==
  [ ID |-> row.hostid, FQDN |-> row.FQDN,
    PrimaryIPv4 |-> IF row.IPv4 = "" THEN Nil ELSE ParseIP(row.IPv4),
    PrimaryIPv6 |-> IF row.IPv6 = "" THEN Nil ELSE ParseIP(row.IPv6),
    ptr |-> n ]

\* The appends of one target: once without prefixes, else once per matching
\* prefix when the target has a FQDN.
RECURSIVE Appends(_, _)
Appends(t, prefixes) ==
  IF prefixes = << >> THEN << >>
  ELSE (IF HasPrefix(FirstComponent(t.FQDN), Head(prefixes)) THEN <<t>> ELSE << >>)
       \o Appends(t, Tail(prefixes))

HostsOfTarget(t, prefixes) ==
  IF Len(prefixes) = 0 THEN <<t>>
  ELSE IF t.FQDN # NoText THEN Appends(t, prefixes)
  ELSE << >>

\* The row check skipping every row without a host id.
RowError_SkipsEmptyID(row) ==
  IF row.hostid = "" THEN "skip"
  ELSE IF row.IPv4 # "" /\ (ParseIP(row.IPv4) = Nil \/ To4(ParseIP(row.IPv4)) = Nil)
    THEN "errIPv4"
  ELSE IF row.IPv6 # "" /\ (ParseIP(row.IPv6) = Nil \/ To16(ParseIP(row.IPv6)) = Nil)
    THEN "errIPv6"
  ELSE "none"

\* The check of one scanned row.
RowError(row) ==
  IF row.hostid = "" /\ row.FQDN = NoText /\ row.IPv4 = "" /\ row.IPv6 = ""
    THEN "skip"
  ELSE IF row.hostid = "" THEN "errEmptyID"
  ELSE IF row.IPv4 # "" /\ (ParseIP(row.IPv4) = Nil \/ To4(ParseIP(row.IPv4)) = Nil)
    THEN "errIPv4"
  ELSE IF row.IPv6 # "" /\ (ParseIP(row.IPv6) = Nil \/ To16(ParseIP(row.IPv6)) = Nil)
    THEN "errIPv6"
  ELSE "none"

\* The loop over table.Next(): rows n..Len(table) with hosts so far; Scan of
\* row failRow fails (0: no Scan fails).
RECURSIVE LoadRows(_, _, _, _, _)
LoadRows(table, n, failRow, prefixes, hosts) ==
  IF n > Len(table) THEN [err |-> "none", hosts |-> hosts]
  ELSE IF n = failRow THEN [err |-> "errScan", hosts |-> << >>]
  ELSE LET e == RowError(table[n]) IN
       IF e = "skip" THEN LoadRows(table, n + 1, failRow, prefixes, hosts)
       ELSE IF e # "none" THEN [err |-> e, hosts |-> << >>]
       ELSE LoadRows(table, n + 1, failRow, prefixes,
                     hosts \o HostsOfTarget(Target(table[n], n), prefixes))

\* A shuffle whose swap assigns one way only.
Shuffles_Overwrite(s) ==
  {s} \cup { [s EXCEPT ![i] = s[k]] : i \in 1..Len(s), k \in 1..Len(s) }

\* rand.Shuffle: any permutation of hosts.
RECURSIVE Shuffles(_)
Shuffles(s) ==
  IF s = << >> THEN { << >> }
  ELSE UNION { { <<s[i]>> \o p :
                 p \in Shuffles(SubSeq(s, 1, i - 1) \o SubSeq(s, i + 1, Len(s))) } :
               i \in 1..Len(s) }

\* The pre-flight count check: TRUE when hosts are too few.
NotEnoughHosts(hosts, ap) == Len(hosts) < ap.MinNumberDevices

\* ------------------------------------------------------------------ errors
\* An error is the chain of its messages, outermost first; nil is empty.
NoErr == << >>
ErrParams == <<"Acquire expects AcquireParameters">>
ErrScan == <<"scan column from table waws not successful">>
ErrEmptyID == <<"invalid empty string for host ID">>
ErrIPv4 == <<"invalid non-empty IPv4 address">>
ErrIPv6 == <<"invalid non-empty IPv6 address">>
ErrNotEnoughHosts == <<"not enough hosts found in DB table">>
ErrLocker == <<"locker: deadline exceeded or cancelled">>
ErrTryLock == <<"failed to lock targets">> \o ErrLocker
ErrFilter == <<"can not find locked targets in hosts">>
ErrUnlock == <<"can't unlock targets">>
ErrNotEnoughLocked == <<"can't lock enough targets">>

LoadError(e) ==
  CASE e = "errScan" -> ErrScan
    [] e = "errEmptyID" -> ErrEmptyID
    [] e = "errIPv4" -> ErrIPv4
    [] e = "errIPv6" -> ErrIPv6

\* ------------------------------------------------------------------- state
VARIABLES
  catalog,       \* rows of table targetmanager
  locks,         \* the locker's reservation table: pairs <<job, target id>>
  tfHosts,       \* field hosts of the MySQLTargetManager instance
  pc,            \* where each job's Acquire call stands
  ap,            \* the AcquireParameters of each job's call
  verr,          \* the error ValidateAcquireParameters returned for each job
  relErr,        \* the error Release returned for each job
  hosts,         \* local hosts of each call
  locked,        \* local locked of each call
  ret,           \* what each call returned: [targets, err]
  loaded,        \* observed: how far each call's catalog load got
  tlCalls,       \* observed: number of TryLock invocations of each call
  tlRet,         \* observed: what TryLock returned to each call
  ulArgs,        \* observed: the target lists each call passed to Unlock
  ulErrs,        \* observed: how many of those Unlock calls returned an error
  granted        \* observed: ids the locker locked for the job during the call

vars == <<catalog, locks, tfHosts, pc, ap, verr, relErr, hosts, locked, ret, loaded,
          tlCalls, tlRet, ulArgs, ulErrs, granted>>

NoRet == [targets |-> << >>, err |-> NoErr]
NoTryLock == [called |-> FALSE, ids |-> << >>, err |-> NoErr, conforming |-> TRUE]

IDsOf(ts) == { ts[i].ID : i \in 1..Len(ts) }
HeldBy(j) == { l[2] : l \in { m \in locks : m[1] = j } }
HeldByOthers(j) == { l[2] : l \in { m \in locks : m[1] # j } }

\* ------------------------------------------------------- the locker contract
\* The ids of set G in the order in which hs first lists them.
RECURSIVE IDsInOrder(_, _)
IDsInOrder(hs, G) ==
  IF hs = << >> THEN << >>
  ELSE IF Head(hs).ID \in G
       THEN <<Head(hs).ID>> \o IDsInOrder(Tail(hs), G \ {Head(hs).ID})
  ELSE IDsInOrder(Tail(hs), G)

\* Locker.TryLock(jobID, timeout, hs, limit): the locker locks a set of
\* candidates no other job holds and reports their ids; or it runs into its
\* deadline (or a cancellation) and reports an error, with what it locked
\* until then still locked; or it breaks its contract by reporting an id that
\* is no candidate, or by locking more than limit.
TryLockAnswers(j, hs, limit) ==
  { [ grant |-> G,
      ids |-> CASE mode = "ok" -> IDsInOrder(hs, G)
                [] mode = "bogus" -> IDsInOrder(hs, G) \o <<Ghost>>
                [] mode = "err" -> << >>,
      err |-> IF mode = "err" THEN ErrLocker ELSE NoErr,
      conforming |-> mode # "bogus" /\ Cardinality(G) <= limit ] :
    G \in SUBSET (IDsOf(hs) \ HeldByOthers(j)), mode \in {"ok", "err", "bogus"} }

\* Locker.Unlock(jobID, ts): releases the locks jobID holds on ts; when it
\* reports an error any part of them may have been released.
UnlockAnswers(j, ts) ==
  { [release |-> IDsOf(ts), err |-> FALSE] }
    \cup { [release |-> R, err |-> TRUE] : R \in SUBSET IDsOf(ts) }

\* target.FilterTargets(ids, hs): the targets of hs the ids name, in the
\* order of ids; an id that names no target of hs is an error.
RECURSIVE FilterTargets(_, _)
FilterTargets(ids, hs) ==
  IF ids = << >> THEN [err |-> FALSE, targets |-> << >>]
  ELSE LET m == { i \in 1..Len(hs) : hs[i].ID = Head(ids) }
           rest == FilterTargets(Tail(ids), hs)
       IN  IF m = {} \/ rest.err THEN [err |-> TRUE, targets |-> << >>]
           ELSE [ err |-> FALSE,
                  targets |-> <<hs[CHOOSE i \in m : \A k \in m : i <= k]>>
                                \o rest.targets ]

\* ------------------------------------------------- Acquire after TryLock
\* What Acquire does next: return (pc "done", with targets and err), or go on
\* to Unlock what is locked (pc "unlock").
Step(p, ts, e) == [pc |-> p, targets |-> ts, err |-> e]

\* The quorum check accepting any non-empty lock result.
Reconcile_AnyLocked(lk, params) ==
  IF Len(lk) > 0 \/ params.MinNumberDevices = 0 THEN Step("done", lk, NoErr)
  ELSE Step("done", << >>, ErrNotEnoughLocked)

\* The quorum check trying the lock again after an empty result.
Reconcile_Retry(lk, params) ==
  IF Len(lk) >= params.MinNumberDevices THEN Step("done", lk, NoErr)
  ELSE IF Len(lk) > 0 THEN Step("unlock", lk, NoErr)
  ELSE Step("trylock", << >>, NoErr)

\* The quorum check with a strict comparison.
Reconcile_Strict(lk, params) ==
  IF Len(lk) > params.MinNumberDevices THEN Step("done", lk, NoErr)
  ELSE IF Len(lk) > 0 THEN Step("unlock", lk, NoErr)
  ELSE Step("done", << >>, ErrNotEnoughLocked)

\* The quorum check.
Reconcile(lk, params) ==
  IF Len(lk) >= params.MinNumberDevices THEN Step("done", lk, NoErr)
  ELSE IF Len(lk) > 0 THEN Step("unlock", lk, NoErr)
  ELSE Step("done", << >>, ErrNotEnoughLocked)

\* FilterTargets' error dropped.
AfterFilter_ErrorIgnored(f, params) == Reconcile(f.targets, params)

\* The check of what FilterTargets returned.
AfterFilter(f, params) ==
  IF f.err THEN Step("done", << >>, ErrFilter)
  ELSE Reconcile(f.targets, params)

\* The candidates returned in place of the locked targets.
AfterTryLock_ReturnsHosts(ans, hs, params) ==
  IF ans.err # NoErr THEN Step("done", << >>, <<"failed to lock targets">> \o ans.err)
  ELSE LET next == AfterFilter(FilterTargets(ans.ids, hs), params)
       IN  IF next.pc = "done" /\ next.err = NoErr THEN Step("done", hs, NoErr)
           ELSE next

\* The check of what TryLock returned.
AfterTryLock(ans, hs, params) ==
  IF ans.err # NoErr THEN Step("done", << >>, <<"failed to lock targets">> \o ans.err)
  ELSE AfterFilter(FilterTargets(ans.ids, hs), params)

\* The check of what Unlock returned.
AfterUnlock(uerr) ==
  IF uerr THEN Step("done", << >>, ErrUnlock)
  ELSE Step("done", << >>, ErrNotEnoughLocked)

\* ----------------------------------------------------------------- actions
DbOutcomes == {"ok", "openfail", "queryfail"}

Return(j, ts, e) ==
  /\ pc' = [pc EXCEPT ![j] = "done"]
  /\ ret' = [ret EXCEPT ![j] = [targets |-> ts, err |-> e]]

\* ValidateAcquireParameters on the job's request; Acquire is called with
\* what it returns, and not at all after an error.
Validate(j) ==
  /\ pc[j] = "new"
  /\ \E okJSON \in BOOLEAN :
       LET v == ValidateAcquireParameters(okJSON, ap[j]) IN
       /\ verr' = [verr EXCEPT ![j] = v.err]
       /\ ap' = [ap EXCEPT ![j] = v.ap]
       /\ pc' = [pc EXCEPT ![j] = IF v.err = << >> THEN "idle" ELSE "rejected"]
  /\ UNCHANGED <<catalog, locks, tfHosts, relErr, hosts, locked, ret, loaded,
                 tlCalls, tlRet, ulArgs, ulErrs, granted>>

\* Acquire from its entry to the TryLock call: the type assertion, sql.Open
\* and db.Query (after a failure of either the nil handle is used and the
\* call panics), the loop over the rows, the count check and the shuffle.
Start(j) ==
  /\ pc[j] = "idle"
  /\ \E okType \in BOOLEAN, db \in DbOutcomes, failRow \in 0..Len(catalog) :
       /\ ~okType => db = "ok"
       /\ failRow # 0 => okType /\ db = "ok"
       /\ LET load == LoadRows(catalog, 1, failRow, ap[j].HostPrefixes, << >>)
          IN  /\ loaded' = [loaded EXCEPT ![j] =
                             IF ~okType THEN "badtype"
                             ELSE IF db # "ok" THEN db
                             ELSE load.err]
              /\ IF ~okType THEN Return(j, << >>, ErrParams) /\ UNCHANGED hosts
                 ELSE IF db # "ok"
                   THEN /\ pc' = [pc EXCEPT ![j] = "panicked"]
                        /\ UNCHANGED <<ret, hosts>>
                 ELSE IF load.err # "none"
                   THEN Return(j, << >>, LoadError(load.err)) /\ UNCHANGED hosts
                 ELSE IF NotEnoughHosts(load.hosts, ap[j])
                   THEN Return(j, << >>, ErrNotEnoughHosts) /\ UNCHANGED hosts
                 ELSE /\ \E h \in (IF ap[j].Shuffle THEN Shuffles(load.hosts)
                                   ELSE {load.hosts}) :
                           hosts' = [hosts EXCEPT ![j] = h]
                      /\ pc' = [pc EXCEPT ![j] = "trylock"]
                      /\ UNCHANGED ret
  /\ UNCHANGED <<catalog, locks, tfHosts, ap, verr, relErr, locked, tlCalls,
                 tlRet,
                 ulArgs, ulErrs, granted>>

\* The TryLock call and what follows it up to a return or the Unlock call.
TryLock(j) ==
  /\ pc[j] = "trylock"
  /\ \E ans \in TryLockAnswers(j, hosts[j], ap[j].MaxNumberDevices) :
       LET next == AfterTryLock(ans, hosts[j], ap[j]) IN
       /\ locks' = locks \cup { <<j, id>> : id \in ans.grant }
       /\ granted' = [granted EXCEPT ![j] = @ \cup ans.grant]
       /\ tlCalls' = [tlCalls EXCEPT ![j] = @ + 1]
       /\ tlRet' = [tlRet EXCEPT ![j] = [ called |-> TRUE, ids |-> ans.ids,
                                          err |-> ans.err,
                                          conforming |-> ans.conforming ]]
       /\ pc' = [pc EXCEPT ![j] = next.pc]
       /\ IF next.pc = "done"
            THEN /\ ret' = [ret EXCEPT ![j] = [targets |-> next.targets,
                                               err |-> next.err]]
                 /\ locked' = locked
                 /\ tfHosts' = IF next.err = NoErr THEN next.targets ELSE tfHosts
            ELSE /\ locked' = [locked EXCEPT ![j] = next.targets]
                 /\ UNCHANGED <<ret, tfHosts>>
  /\ UNCHANGED <<catalog, ap, verr, relErr, hosts, loaded, ulArgs, ulErrs>>

\* The Unlock call of the unwind and the return that follows it.
Unlock(j) ==
  /\ pc[j] = "unlock"
  /\ \E ans \in UnlockAnswers(j, locked[j]) :
       LET next == AfterUnlock(ans.err) IN
       /\ locks' = locks \ { <<j, id>> : id \in ans.release }
       /\ ulArgs' = [ulArgs EXCEPT ![j] = Append(@, locked[j])]
       /\ ulErrs' = [ulErrs EXCEPT ![j] = IF ans.err THEN @ + 1 ELSE @]
       /\ pc' = [pc EXCEPT ![j] = next.pc]
       /\ ret' = [ret EXCEPT ![j] = [targets |-> next.targets, err |-> next.err]]
       /\ locked' = [locked EXCEPT ![j] = << >>]
  /\ UNCHANGED <<catalog, tfHosts, ap, verr, relErr, hosts, loaded, tlCalls, tlRet,
                 granted>>

\* A Release that unlocks what the job holds.
Release_Unlocks(j) ==
  /\ pc[j] = "done"
  /\ pc' = [pc EXCEPT ![j] = "released"]
  /\ relErr' = [relErr EXCEPT ![j] = NoErr]
  /\ locks' = { l \in locks : l[1] # j }
  /\ UNCHANGED <<catalog, tfHosts, ap, verr, hosts, locked, ret, loaded,
                 tlCalls, tlRet, ulArgs, ulErrs, granted>>

\* Release(ctx, jobID, params): returns nil.
Release(j) ==
  /\ pc[j] = "done"
  /\ pc' = [pc EXCEPT ![j] = "released"]
  /\ relErr' = [relErr EXCEPT ![j] = NoErr]
  /\ UNCHANGED <<catalog, locks, tfHosts, ap, verr, hosts, locked, ret, loaded,
                 tlCalls, tlRet, ulArgs, ulErrs, granted>>

Next ==
  \E j \in Jobs : Validate(j) \/ Start(j) \/ TryLock(j) \/ Unlock(j) \/ Release(j)

\* ---------------------------------------------------------- specifications
DefaultParameters ==
  [MinNumberDevices |-> 0, MaxNumberDevices |-> 0, HostPrefixes |-> << >>,
   Shuffle |-> FALSE]

InitCalls ==
  /\ locks = {}
  /\ tfHosts = << >>
  /\ verr = [j \in Jobs |-> << >>]
  /\ relErr = [j \in Jobs |-> <<"not called">>]
  /\ hosts = [j \in Jobs |-> << >>]
  /\ locked = [j \in Jobs |-> << >>]
  /\ ret = [j \in Jobs |-> NoRet]
  /\ loaded = [j \in Jobs |-> "pending"]
  /\ tlCalls = [j \in Jobs |-> 0]
  /\ tlRet = [j \in Jobs |-> NoTryLock]
  /\ ulArgs = [j \in Jobs |-> << >>]
  /\ ulErrs = [j \in Jobs |-> 0]
  /\ granted = [j \in Jobs |-> {}]

\* One job acquires, over every catalog and every request.
Init ==
  /\ catalog \in Catalogs
  /\ \E p \in AcquireParameters :
       ap = [j \in Jobs |-> IF j = 1 THEN p ELSE DefaultParameters]
  /\ pc = [j \in Jobs |-> IF j = 1 THEN "new" ELSE "absent"]
  /\ InitCalls

Spec == Init /\ [][Next]_vars

\* All jobs acquire concurrently from one catalog of two targets, their
\* candidate sets overlapping (all targets, or those named web*).
ConcCatalog == <<Row("T1", Web1, "1.2.3.4", ""), Row("T2", Db1, "", "2001:db8::1")>>

ConcParameters ==
  { [MinNumberDevices |-> m, MaxNumberDevices |-> 2, HostPrefixes |-> hp,
     Shuffle |-> FALSE] : m \in 1..2, hp \in { << >>, <<PfxWeb>> } }

InitConc ==
  /\ catalog = ConcCatalog
  /\ ap \in [Jobs -> ConcParameters]
  /\ pc = [j \in Jobs |-> "new"]
  /\ InitCalls

SpecConc == InitConc /\ [][Next]_vars

TypeOK ==
  /\ pc \in [Jobs -> {"absent", "new", "rejected", "idle", "trylock", "unlock", "done", "released", "panicked"}]
  /\ locks \subseteq (Jobs \X {"T1", "T2", "T3", "T4", "T5"})

\* ------------------------------------------------------------------ claims
Returned(j) == pc[j] \in {"done", "released"}
Failed(j) == Returned(j) /\ ret[j].err # NoErr
Succeeded(j) == Returned(j) /\ ret[j].err = NoErr

\* The candidate list the catalog yields for job j's prefixes.
Candidates(j) == LoadRows(catalog, 1, 0, ap[j].HostPrefixes, << >>).hosts

\* A row with no field set (the rows the load skips).
AllEmpty(r) == r.hostid = "" /\ r.FQDN = NoText /\ r.IPv4 = "" /\ r.IPv6 = ""

\* The first dot-delimited label of name starts with p.
LabelStartsWith(name, p) ==
  \E n \in 0..Len(name) :
    /\ \A i \in 1..n : name[i] # "."
    /\ n = Len(name) \/ name[n + 1] = "."
    /\ Len(p) <= n
    /\ \A i \in 1..Len(p) : name[i] = p[i]

PassesFilter(r, prefixes) ==
  \/ prefixes = << >>
  \/ /\ r.FQDN # NoText
     /\ \E k \in 1..Len(prefixes) : LabelStartsWith(r.FQDN, prefixes[k])

\* The catalog rows the entries of a host list stand for.
RowsOf(ts) == { ts[i].ptr : i \in 1..Len(ts) }
\* The rows of the catalog that are targets passing job j's prefix filter:
\* the filtered candidates, each row once.
Passing(j) ==
  { n \in 1..Len(catalog) :
      ~AllEmpty(catalog[n]) /\ PassesFilter(catalog[n], ap[j].HostPrefixes) }

\* TryLock returned to job j without error / with ids that all name candidates.
TryLockOk(j) == tlRet[j].called /\ tlRet[j].err = NoErr
Mapped(j) == \A i \in 1..Len(tlRet[j].ids) : tlRet[j].ids[i] \in IDsOf(hosts[j])
\* The number of targets the returned ids map to.
NumLocked(j) == Len(tlRet[j].ids)
Shortfall(j) ==
  TryLockOk(j) /\ Mapped(j) /\ 0 < NumLocked(j) /\ NumLocked(j) < ap[j].MinNumberDevices

\* C1: a call that returned an error, every Unlock it made having succeeded,
\* holds none of the targets the locker locked for it during the call.
C1_NoLeakOnFailure ==
  \A j \in Jobs :
    Failed(j) /\ ulErrs[j] = 0 => granted[j] \cap HeldBy(j) = {}

\* C2: after a TryLock without error whose g targets fall short of the
\* quorum (0 < g < MinNumberDevices) the call, once returned, has made exactly
\* one Unlock, of exactly the granted targets, and has returned the
\* quorum-not-met error with no targets.
C2_UnwindOnShortfall ==
  \A j \in Jobs :
    Shortfall(j) /\ Returned(j) =>
      /\ Len(ulArgs[j]) = 1
      /\ IDsOf(ulArgs[j][1]) = granted[j]
      /\ Len(ulArgs[j][1]) = Cardinality(granted[j])
      /\ ret[j] = [targets |-> << >>, err |-> ErrNotEnoughLocked]

\* C3: a call whose TryLock returned an error after the locker had locked a
\* non-empty set of candidates has, once returned, unlocked that set.
C3_ErrorAfterPartialGrantUnwinds ==
  \A j \in Jobs :
    Returned(j) /\ tlRet[j].called /\ tlRet[j].err # NoErr /\ granted[j] # {} =>
      /\ Len(ulArgs[j]) >= 1
      /\ \E i \in 1..Len(ulArgs[j]) : IDsOf(ulArgs[j][i]) = granted[j]

\* C4: when the catalog loads and the number of filtered candidates (the
\* targets that pass the prefix filter, each counted once) is less than
\* MinNumberDevices, the call returns the not-enough-hosts error and has
\* invoked neither TryLock nor Unlock.
C4_PreflightShortCircuit ==
  \A j \in Jobs :
    loaded[j] = "none" /\ Cardinality(Passing(j)) < ap[j].MinNumberDevices =>
      /\ Returned(j)
      /\ ret[j] = [targets |-> << >>, err |-> ErrNotEnoughHosts]
      /\ tlCalls[j] = 0
      /\ ulArgs[j] = << >>

\* C5: a call that succeeded against a locker that kept its contract returns
\* at least MinNumberDevices and at most MaxNumberDevices targets, each of
\* them one of the candidates passed to TryLock.
C5_ResultBounds ==
  \A j \in Jobs :
    Succeeded(j) /\ tlRet[j].conforming =>
      /\ ap[j].MinNumberDevices <= Len(ret[j].targets)
      /\ Len(ret[j].targets) <= ap[j].MaxNumberDevices
      /\ \A i \in 1..Len(ret[j].targets) :
           \E k \in 1..Len(hosts[j]) : ret[j].targets[i] = hosts[j][k]

C5_Witness ==
  \E j \in Jobs :
    /\ Succeeded(j)
    /\ tlRet[j].conforming
    /\ Len(hosts[j]) = 2
    /\ ap[j].MinNumberDevices = 1
    /\ ap[j].MaxNumberDevices = 2
    /\ Len(ret[j].targets) = 2

\* C6: in every interleaving of calls of different jobs, with a locker that
\* never locks for one job what another holds: each target is held by at most
\* one job, the results of the calls that succeeded are pairwise disjoint, and
\* a step of one call leaves alone the locals, the result and the locks of
\* every other call.
C6_MutualExclusion ==
  \A l, m \in locks : l[2] = m[2] => l[1] = m[1]

C6_DisjointResults ==
  \A i, j \in Jobs :
    i # j /\ Succeeded(i) /\ Succeeded(j) =>
      IDsOf(ret[i].targets) \cap IDsOf(ret[j].targets) = {}

C6_OwnDataOnly ==
  \A j \in Jobs :
    pc'[j] = pc[j] =>
      /\ hosts'[j] = hosts[j]
      /\ locked'[j] = locked[j]
      /\ ret'[j] = ret[j]
      /\ HeldBy(j)' = HeldBy(j)

C6_ConcurrentAcquireSafe ==
  /\ [](C6_MutualExclusion /\ C6_DisjointResults)
  /\ [][C6_OwnDataOnly]_vars

C6_Witness ==
  \E i, j \in Jobs :
    /\ i # j
    /\ Succeeded(i)
    /\ Succeeded(j)
    /\ IDsOf(hosts[i]) \cap IDsOf(hosts[j]) # {}
    /\ ret[i].targets # << >>
    /\ ret[j].targets # << >>

\* C7: a call whose Unlock of a short lock result returned an error returns
\* the quorum-not-met error first, with the unlock error along with it.
C7_UnlockFailureNonMasking ==
  \A j \in Jobs :
    Returned(j) /\ Shortfall(j) /\ ulErrs[j] > 0 =>
      /\ Head(ret[j].err) = Head(ErrNotEnoughLocked)
      /\ \E i \in 1..Len(ret[j].err) : ret[j].err[i] = Head(ErrUnlock)

\* C8: a call invokes TryLock at most once, and exactly once by the time it
\* returns when its catalog loaded and held at least MinNumberDevices
\* candidates.
C8_SingleTryLock ==
  \A j \in Jobs :
    /\ tlCalls[j] <= 1
    /\ Returned(j) /\ loaded[j] = "none"
         /\ Len(Candidates(j)) >= ap[j].MinNumberDevices => tlCalls[j] = 1
    /\ tlCalls[j] = 1 =>
         loaded[j] = "none" /\ Len(Candidates(j)) >= ap[j].MinNumberDevices

C8_Witness ==
  \E j \in Jobs :
    /\ Returned(j)
    /\ tlCalls[j] = 1
    /\ TryLockOk(j)
    /\ NumLocked(j) = 0
    /\ ap[j].MinNumberDevices > 0
    /\ ret[j].err = ErrNotEnoughLocked

\* C9: a returned call has invoked Unlock exactly when its TryLock returned
\* without error and the targets it mapped the ids to were more than none and
\* fewer than MinNumberDevices; with none locked and MinNumberDevices > 0 it
\* returned the quorum-not-met error; with MinNumberDevices or more locked it
\* succeeded and its job still holds every target of the result.
C9_UnlockOnlyOnShortfall ==
  \A j \in Jobs :
    Returned(j) =>
      /\ ulArgs[j] # << >> <=> Shortfall(j)
      /\ TryLockOk(j) /\ NumLocked(j) = 0 /\ ap[j].MinNumberDevices > 0 =>
           ret[j] = [targets |-> << >>, err |-> ErrNotEnoughLocked]
      /\ TryLockOk(j) /\ Mapped(j) /\ NumLocked(j) >= ap[j].MinNumberDevices =>
           /\ ret[j].err = NoErr
           /\ Len(ret[j].targets) = NumLocked(j)
           /\ IDsOf(ret[j].targets) \subseteq HeldBy(j)

C9_Witness ==
  \E j \in Jobs :
    /\ Returned(j)
    /\ TryLockOk(j)
    /\ NumLocked(j) = 2
    /\ ap[j].MinNumberDevices = 2
    /\ ret[j].err = NoErr
    /\ ulArgs[j] = << >>
    /\ IDsOf(ret[j].targets) = HeldBy(j)

\* C10: when TryLock returned, without error, an id that is the id of no
\* candidate, the call returns the locker-inconsistency error and no targets,
\* whatever the other ids and MinNumberDevices are.
C10_InconsistencyFatal ==
  \A j \in Jobs :
    TryLockOk(j) /\ ~Mapped(j) =>
      /\ Returned(j)
      /\ ret[j] = [targets |-> << >>, err |-> ErrFilter]

C10_Witness ==
  \E j \in Jobs :
    /\ TryLockOk(j)
    /\ ~Mapped(j)
    /\ Len(tlRet[j].ids) = 3
    /\ ap[j].MinNumberDevices = 0
    /\ Returned(j)
    /\ ret[j].err = ErrFilter


\* C11: when TryLock returned, without error, more than MaxNumberDevices ids,
\* all of them ids of candidates, the call returns the locker-inconsistency
\* error and no targets.
C11_OverGrantFatal ==
  \A j \in Jobs :
    Returned(j) /\ TryLockOk(j) /\ Mapped(j)
      /\ NumLocked(j) > ap[j].MaxNumberDevices =>
        ret[j] = [targets |-> << >>, err |-> ErrFilter]

\* C12: the MySQLTargetManager instance is the same after any calls as it was
\* when built.
C12_InstanceUnchanged == tfHosts = << >>


\* C13: a row whose four fields are all empty is skipped without error and
\* yields no candidate; a row with an empty id and another field set makes the
\* call return an error, wherever the row sits and however many candidates
\* precede it, and TryLock is not invoked; the error is the empty-id error
\* unless an earlier row failed its Scan or its address check.
Malformed(r) == r.hostid = "" /\ ~AllEmpty(r)
RowsRead(j) == loaded[j] \in {"none", "errScan", "errEmptyID", "errIPv4", "errIPv6"}

C13_RowValidation ==
  \A j \in Jobs :
    /\ RowsRead(j) /\ (\E n \in 1..Len(catalog) : Malformed(catalog[n])) =>
         /\ Returned(j)
         /\ ret[j].err # NoErr
         /\ ret[j].targets = << >>
         /\ tlCalls[j] = 0
    /\ RowsRead(j) /\ (\E n \in 1..Len(catalog) : Malformed(catalog[n]))
         /\ loaded[j] \notin {"errScan", "errIPv4", "errIPv6"} =>
           ret[j].err = ErrEmptyID
    /\ loaded[j] = "none" =>
         /\ \A n \in 1..Len(catalog) : ~Malformed(catalog[n])
         /\ \A i \in 1..Len(hosts[j]) : ~AllEmpty(catalog[hosts[j][i].ptr])
         /\ pc[j] = "trylock" /\ ap[j].HostPrefixes = << >> =>
              Len(hosts[j]) =
                Cardinality({ n \in 1..Len(catalog) : ~AllEmpty(catalog[n]) })

C13_Witness ==
  \E j \in Jobs :
    /\ Len(catalog) = 2
    /\ catalog[1].hostid = "T1"
    /\ Malformed(catalog[2])
    /\ ap[j].MinNumberDevices = 1
    /\ ap[j].HostPrefixes = << >>
    /\ Returned(j)
    /\ ret[j].err = ErrEmptyID


\* C14: a row with a non-empty IPv4 (IPv6) field lets the load go on only if
\* the text is an address of that family; otherwise the call returns an
\* error and TryLock is not invoked.
IsIPv4Text(s) == s = "1.2.3.4"
IsIPv6Text(s) == s = "2001:db8::1"
BadAddress(r) ==
  \/ r.IPv4 # "" /\ ~IsIPv4Text(r.IPv4)
  \/ r.IPv6 # "" /\ ~IsIPv6Text(r.IPv6)

C14_AddressPerFamily ==
  \A j \in Jobs :
    RowsRead(j) /\ (\E n \in 1..Len(catalog) : BadAddress(catalog[n])) =>
      /\ Returned(j)
      /\ ret[j].err # NoErr
      /\ tlCalls[j] = 0


\* C15: without prefixes every valid target is a candidate; with prefixes a
\* valid target is a candidate exactly when it has a name and the first
\* dot-delimited label of the name starts, case-sensitively, with one of them.
C15_PrefixFilter ==
  \A j \in Jobs :
    loaded[j] = "none" =>
      /\ RowsOf(Candidates(j)) = Passing(j)
      /\ tlCalls[j] > 0 \/ pc[j] = "trylock" => RowsOf(hosts[j]) = Passing(j)

C15_Witness ==
  \E j \in Jobs :
    /\ pc[j] = "trylock"
    /\ Len(catalog) = 2
    /\ catalog[1].FQDN = Web1
    /\ catalog[2].FQDN = Db1
    /\ ap[j].HostPrefixes = <<PfxWeb>>
    /\ RowsOf(hosts[j]) = {1}


\* C16: the list passed to TryLock holds the elements of the candidate list,
\* each as often as the candidate list does, when Shuffle is set, and is the
\* candidate list in catalog order when it is not.
Count(s, x) == Cardinality({ i \in 1..Len(s) : s[i] = x })
SameMultiset(a, b) ==
  /\ Len(a) = Len(b)
  /\ \A i \in 1..Len(a) : Count(a, a[i]) = Count(b, a[i])

C16_ShufflePreservesMultiset ==
  \A j \in Jobs :
    tlCalls[j] > 0 \/ pc[j] = "trylock" =>
      IF ap[j].Shuffle THEN SameMultiset(hosts[j], Candidates(j))
      ELSE hosts[j] = Candidates(j)

C16_Witness ==
  \E j \in Jobs :
    /\ pc[j] = "trylock"
    /\ ap[j].Shuffle
    /\ Len(hosts[j]) = 2
    /\ hosts[j] # Candidates(j)


\* C17: a call whose sql.Open or db.Query failed returns an error, and has
\* not invoked TryLock.
C17_CatalogFailureReturned ==
  \A j \in Jobs :
    loaded[j] \in {"openfail", "queryfail"} =>
      /\ Returned(j)
      /\ ret[j].err # NoErr
      /\ tlCalls[j] = 0

\* C18: every row of the catalog has at most one entry in the list that is
\* counted against MinNumberDevices and passed to TryLock, so the list is no
\* longer than the number of rows that match.
C18_OneEntryPerRecord ==
  \A j \in Jobs :
    loaded[j] = "none" =>
      /\ \A n \in 1..Len(catalog) :
           Cardinality({ i \in 1..Len(Candidates(j)) : Candidates(j)[i].ptr = n }) <= 1
      /\ Len(Candidates(j)) <= Cardinality(Passing(j))
      /\ tlCalls[j] > 0 => Len(hosts[j]) <= Cardinality(Passing(j))


\* C19: ValidateAcquireParameters refuses a request only for its JSON or an
\* empty prefix, so a minimum above the maximum is accepted; such a request
\* never succeeds against a locker that keeps its contract, and when the
\* catalog holds at least the minimum of candidates the call invokes TryLock
\* and unlocks whatever was locked before it fails.
MinAboveMax(j) == ap[j].MinNumberDevices > ap[j].MaxNumberDevices

C19_MinAboveMaxLocksThenFails ==
  \A j \in Jobs :
    /\ verr[j] # << >> =>
         \/ verr[j] = ErrJSON
         \/ /\ verr[j] = ErrEmptyPrefix
            /\ \E i \in 1..Len(ap[j].HostPrefixes) :
                 TrimSpace(ap[j].HostPrefixes[i]) = << >>
    /\ MinAboveMax(j) /\ tlRet[j].conforming => ~Succeeded(j)
    /\ MinAboveMax(j) /\ Returned(j) /\ loaded[j] = "none"
         /\ Len(Candidates(j)) >= ap[j].MinNumberDevices =>
           /\ tlCalls[j] = 1
           /\ TryLockOk(j) /\ tlRet[j].conforming /\ NumLocked(j) > 0 =>
                /\ Len(ulArgs[j]) = 1
                /\ IDsOf(ulArgs[j][1]) = granted[j]
                /\ ret[j].err \in {ErrNotEnoughLocked, ErrUnlock}

C19_Witness ==
  \E j \in Jobs :
    /\ ap[j].MinNumberDevices = 2
    /\ ap[j].MaxNumberDevices = 1
    /\ verr[j] = << >>
    /\ Returned(j)
    /\ tlRet[j].conforming
    /\ NumLocked(j) = 1
    /\ Len(ulArgs[j]) = 1
    /\ ret[j].err = ErrNotEnoughLocked
    /\ HeldBy(j) = {}


\* C20: Release returns nil, invokes no Unlock and leaves the locker's table
\* as it is, so after a successful Acquire and a Release the job still holds
\* every target of the result.
C20_ReleaseStep ==
  \A j \in Jobs :
    pc[j] = "done" /\ pc'[j] = "released" =>
      /\ relErr'[j] = NoErr
      /\ locks' = locks
      /\ ulArgs' = ulArgs

C20_HeldAfterRelease ==
  \A j \in Jobs :
    pc[j] = "released" /\ ret[j].err = NoErr =>
      /\ relErr[j] = NoErr
      /\ IDsOf(ret[j].targets) \subseteq HeldBy(j)

C20_ReleaseKeepsLocks == [][C20_ReleaseStep]_vars /\ []C20_HeldAfterRelease

C20_Witness ==
  \E j \in Jobs :
    /\ pc[j] = "released"
    /\ ret[j].err = NoErr
    /\ Len(ret[j].targets) = 2
    /\ IDsOf(ret[j].targets) = HeldBy(j)

====
